---- MODULE Spec2Model ----
(***************************************************************************)
(* A model of uv2nix_hammer: the rule engine (rules.py), the merge step    *)
(* write_combined_rules, and the build-retry loop of main (__init__.py).   *)
(*                                                                         *)
(* A failure text is modelled by the set of the fixed substrings           *)
(* ("signals") the rules and attempt_build look for in it.  A rule option  *)
(* value is a tagged sequence of strings, so that Python's == between      *)
(* values of different types (str, list, tuple, bool, None) is plain       *)
(* equality of the encodings.                                              *)
(*                                                                         *)
(* Specifications: Spec is the retry loop after main's set-up, RunSpec the *)
(* loop with the set-up, NumpySpec the loop for logs that DowngradeNumpy   *)
(* decides on, MergeSpec a merge of a persisted rule state (rewrite-only   *)
(* mode and write_rules), MainSpec main in either mode, UnitsSpec the loop *)
(* when two units can fail in an attempt, FormatSpec nix_format on marked  *)
(* strings, CacheSpec the calls of get_pypi_json.                          *)
(***************************************************************************)
EXTENDS Integers, Sequences, FiniteSets, TLC

VARIABLES
    pc,             \* position in main: "loop", "diagnose", "done", "raised"
    attempt_no,     \* main's attempt_no
    builds,         \* number of calls of attempt_build (nix build) in this run
    success,        \* main's success flag
    stop,           \* why the loop ended: "none", "success", "stuck", "bound",
                    \*   "fatal" (an exception absorbed by main), "excluded"
    requires_nixpkgs_master, \* main's variable: "None", "False" or "True"
    python_downgrade,        \* main's variable: "None" or a version
    stderr,         \* signals in the captured output of the last attempt
    result,         \* whether project_folder/result exists
    rules_toml,     \* unit -> persisted rule state (rules.toml), rule -> value
    default_nix,    \* unit -> generated artifact (default.nix) or NoFile
    pyproject,      \* [python, deps]: requires-python and dependencies
    flake,          \* [python, nixpkgs]: what flake.nix was written with
    exit,           \* how main ended: [code, reason], code "none" while running
    last,           \* the last pass of detect_rules and write_rules (a record)
    call            \* a call outside the loop. Of a merge: the key order of
                    \*   the rule state, the accumulators at the end of the
                    \*   merge loop and the rule state in memory; of nix_format
                    \*   and of get_pypi_json: their arguments and results

vars == <<pc, attempt_no, builds, success, stop, requires_nixpkgs_master,
          python_downgrade, stderr, result, rules_toml, default_nix,
          pyproject, flake, exit, last, call>>

----------------------------------------------------------------------------
(* Program constants *)

max_trials == 10

default_nixpkgs_version == "684a8fe"

\* The python version main starts with (args.python_version or
\* newest_python_at_pkg_release).
python_version == "3.12"

\* The units (package, version) whose builds may fail; the unit's name is its
\* package name.
Units == {"p"}

\* uv.lock of the project: P -> Q -> P, as (dependency, package) edges.
LockEdges == {<<"q", "p">>, <<"p", "q">>}

\* The cycles of length two in the lock graph.
find_cycles_in_uv_lock == {e \in LockEdges : <<e[2], e[1]>> \in LockEdges}

----------------------------------------------------------------------------
(* Rule option values *)

PyNone == <<"none">>

VTrue == <<"bool", "True">>

VFalse == <<"bool", "False">>

VStr(s) == <<"str", s>>

VList(seq) == <<"list">> \o seq

\* A Python tuple (a, b); b = NoneAtom stands for None.
VTuple(a, b) == <<"tuple", a, b>>

\* A Python dict with one key.
VDict(k, v) == <<"dict", k, v>>

NoneAtom == "~None"

Elems(v) == IF v[1] \in {"list", "tuple"} THEN Tail(v) ELSE <<>>

Range(seq) == {seq[i] : i \in 1..Len(seq)}

\* Python truthiness, as used by "if opts := rule.match(...)".
Truthy(v) ==
    CASE v[1] = "none" -> FALSE
      [] v[1] = "bool" -> v[2] = "True"
      [] v[1] = "str" -> v[2] # ""
      [] v[1] = "list" -> Len(v) > 1
      [] v[1] = "tuple" -> TRUE
      [] v[1] = "dict" -> Len(v) > 1

nix_literal(s) == "~literal:!:" \o s

\* Every string that occurs in a sorted list, in Python's string order.
TokenOrder ==
    <<"cmake", "pybind11", "setuptools", "~literal:!:final.cython_0",
      "~literal:!:pkgs.cudaPackages.cudnn", "~literal:!:pkgs.gfortran",
      "~literal:!:pkgs.linuxHeaders", "~literal:!:pkgs.pkg-config",
      "~literal:!:pkgs.ta-lib", "~literal:!:pkgs.zlib.dev">>

\* sorted(S) of a set of strings
SortedOf(S) == SelectSeq(TokenOrder, LAMBDA t : t \in S)

\* A faulty variant of the operator below: the list as it is.
Unsorted(xs) == xs

\* sorted(set(xs))
SortedSet(xs) == SortedOf(Range(xs))

AppendIf(c, xs, x) == IF c THEN Append(xs, x) ELSE xs

AppendNew(c, xs, x) == IF c /\ x \notin Range(xs) THEN Append(xs, x) ELSE xs

----------------------------------------------------------------------------
(* Signals: the substrings of a unit's build log the rules look for *)

SigBorked == "not satisfied by version"

SigCudnn == "libcudnn.so.9 -> not found!"

SigSetuptools == "No module named 'setuptools'"

SigPybind11Config == "pybind11Config.cmake"

SigNoCmake == "No such file or directory: 'cmake'"

SigDistutils == "ModuleNotFoundError: No module named 'distutils'"

SigPy2Only == "is Python 2 only."

SigMaturin == "maturin"

SigHomeless == "Permission denied: '/homeless-shelter'"

SigIntT == "'int_t' is not a type identifier"

SigNpIntT == "np.int_t"

SigNumpyDistutils == "No module named 'numpy.distutils'"

SigKernelHeaders == "apt-get install linux-headers"

SigGfortran == "No such file or directory: 'gfortran'"

SigPkgConfig == "pkg-config not found"

SigZlib == "The headers or library files could not be found for zlib"

SigTaLib == "ta_defs.h: No such file"

SigPoetryMasonry == "ModuleNotFoundError: No module named 'poetry.masonry'"

SigNoProject ==
    "does not appear to be a Python project: no pyproject.toml or setup.py"

SigMissingDeps == "Missing dependencies:"

\* build-system.requires of the unit's source archive (pyproject.toml), as
\* BuildSystems.match reads it when it has no prior decision.
ArchiveBuildRequires(unit) == IF unit = "p" THEN <<"setuptools">> ELSE <<>>

filtered_build_systems ==
    {"hatch-docstring-description", "setuptools-scm-git-archive", "maturin"}

----------------------------------------------------------------------------
(* The rules' match functions: (unit, log, opts, rules_here) -> value *)

BorkedRuntimeDepsCheckMatch(unit, log, opts, rules_here) ==
    IF SigBorked \in log THEN VTrue ELSE VFalse

BuildInputsMatch(unit, log, opts, rules_here) ==
    LET o0 == IF opts = PyNone THEN <<>> ELSE Elems(opts)
        o1 == AppendIf(SigCudnn \in log, o0,
                       nix_literal("pkgs.cudaPackages.cudnn"))
    IN  VList(SortedSet(o1))

BuildSystemsMatch(unit, log, opts, rules_here) ==
    LET o0 == IF opts = PyNone THEN ArchiveBuildRequires(unit) ELSE Elems(opts)
        o1 == AppendNew(SigSetuptools \in log, o0, "setuptools")
        o2 == SelectSeq(o1, LAMBDA x : x # unit)
        o3 == SortedSet(o2)
        \* appended after the sort, and without a membership test
        o4 == AppendIf(SigPybind11Config \in log, o3, "pybind11")
        o5 == AppendIf(SigNoCmake \in log, o4, "cmake")
        o6 == SelectSeq(o5, LAMBDA x : x \notin filtered_build_systems)
    IN  VList(o6)

\* The branches for the signals of the model; the further branches return
\* "<1.22" or "<2" for other substrings.
DowngradeNumpyMatch(unit, log, opts, rules_here) ==
    IF SigIntT \in log /\ SigNpIntT \in log THEN VStr("<2")
    ELSE IF SigNumpyDistutils \in log THEN VStr("<1.22")
    ELSE PyNone

DowngradePythonMatch(unit, log, opts, rules_here) ==
    IF SigDistutils \in log THEN VStr("3.11") ELSE PyNone

HomlessShelterMatch(unit, log, opts, rules_here) ==
    IF SigHomeless \in log THEN VTrue ELSE VFalse

IsPython2OnlyMatch(unit, log, opts, rules_here) ==
    IF SigPy2Only \in log THEN VStr("Is_python2_only") ELSE PyNone

KernelHeadersMatch(unit, log, opts, rules_here) ==
    IF SigKernelHeaders \in log THEN VTrue ELSE VFalse

MasterForTorchMatch(unit, log, opts, rules_here) ==
    IF nix_literal("pkgs.cudaPackages.cudnn")
           \in Range(Elems(rules_here["BuildInputs"]))
    THEN VTrue ELSE VFalse

\* add_pkgs puts "pkgs." before a name without a dot or with ".dev"; the
\* entries of the table for the signals of the model.
NativeBuildInputsMatch(unit, log, opts, rules_here) ==
    LET o0 == IF opts = PyNone THEN <<>> ELSE Elems(opts)
        o1 == AppendIf(SigGfortran \in log, o0, nix_literal("pkgs.gfortran"))
        o2 == AppendIf(SigPkgConfig \in log, o1,
                       nix_literal("pkgs.pkg-config"))
        o3 == IF SigZlib \in log
              THEN o2 \o <<nix_literal("pkgs.zlib.dev"),
                           nix_literal("pkgs.pkg-config")>>
              ELSE o2
        o4 == AppendIf(SigTaLib \in log, o3, nix_literal("pkgs.ta-lib"))
    IN  VList(SortedSet(o4))

PoetryMasonryMatch(unit, log, opts, rules_here) ==
    IF SigPoetryMasonry \in log THEN VTrue ELSE VFalse

RefindBuildDirectoryMatch(unit, log, opts, rules_here) ==
    IF SigNoProject \in log THEN VTrue ELSE VFalse

RustMatch(unit, log, opts, rules_here) ==
    IF SigMaturin \in log
           \/ "maturin" \in Range(Elems(rules_here["BuildSystems"]))
    THEN VStr("maturin") ELSE PyNone

\* An exception that leaves a match function.
Raises(exception) == <<"raise", exception>>

\* get_pyproject_toml takes one parameter, drv; the call passes
\* forbidden_paths as well, which is a TypeError, and the try around it
\* catches KeyError only.
TomlRequiresPatcherMatch(unit, log, opts, rules_here) ==
    IF SigMissingDeps \in log THEN Raises("TypeError") ELSE PyNone

\* The rule registry in the order of dir(rules): sorted by name.
RuleOrder ==
    <<"BorkedRuntimeDepsCheck", "BuildInputs", "BuildSystems",
      "DowngradeNumpy", "DowngradePython", "HomlessShelter", "IsPython2Only",
      "KernelHeaders", "MasterForTorch", "NativeBuildInputs", "PoetryMasonry",
      "RefindBuildDirectory", "Rust", "TomlRequiresPatcher">>

RuleNames == Range(RuleOrder)

\* sorted(rules_here.keys()): the names a rules.toml may hold, which are the
\* registry and MissingSetParts, a class of rules.py that is no Rule.
SortedKeys ==
    <<"BorkedRuntimeDepsCheck", "BuildInputs", "BuildSystems",
      "DowngradeNumpy", "DowngradePython", "HomlessShelter", "IsPython2Only",
      "KernelHeaders", "MasterForTorch", "MissingSetParts",
      "NativeBuildInputs", "PoetryMasonry", "RefindBuildDirectory", "Rust",
      "TomlRequiresPatcher">>

KeyNames == Range(SortedKeys)

\* hasattr(rule, "always_reapply")
AlwaysReapply == {"MasterForTorch"}

\* hasattr(rule, "extract")
HasExtract == {"Rust"}

Match(rule, unit, log, opts, rules_here) ==
    CASE rule = "BorkedRuntimeDepsCheck" ->
             BorkedRuntimeDepsCheckMatch(unit, log, opts, rules_here)
      [] rule = "BuildInputs" -> BuildInputsMatch(unit, log, opts, rules_here)
      [] rule = "BuildSystems" -> BuildSystemsMatch(unit, log, opts, rules_here)
      [] rule = "DowngradeNumpy" ->
             DowngradeNumpyMatch(unit, log, opts, rules_here)
      [] rule = "DowngradePython" ->
             DowngradePythonMatch(unit, log, opts, rules_here)
      [] rule = "HomlessShelter" ->
             HomlessShelterMatch(unit, log, opts, rules_here)
      [] rule = "IsPython2Only" ->
             IsPython2OnlyMatch(unit, log, opts, rules_here)
      [] rule = "KernelHeaders" ->
             KernelHeadersMatch(unit, log, opts, rules_here)
      [] rule = "MasterForTorch" ->
             MasterForTorchMatch(unit, log, opts, rules_here)
      [] rule = "NativeBuildInputs" ->
             NativeBuildInputsMatch(unit, log, opts, rules_here)
      [] rule = "PoetryMasonry" ->
             PoetryMasonryMatch(unit, log, opts, rules_here)
      [] rule = "RefindBuildDirectory" ->
             RefindBuildDirectoryMatch(unit, log, opts, rules_here)
      [] rule = "Rust" -> RustMatch(unit, log, opts, rules_here)
      [] rule = "TomlRequiresPatcher" ->
             TomlRequiresPatcherMatch(unit, log, opts, rules_here)

NoRules == [r \in KeyNames |-> PyNone]

----------------------------------------------------------------------------
(* detect_rules *)

\* Whether the unit's source archive already holds a Cargo.lock; Rust.extract
\* returns None when it does and the path of the generated file otherwise.
ArchiveHasCargoLock(unit) == unit = "p"

RustExtract(unit) ==
    IF ArchiveHasCargoLock(unit) THEN NoneAtom ELSE "overrides/Cargo.lock"

\* The condition under which detect_rules sets any_applied for a rule that
\* matched.
RuleHitCondition(rule, opts, old_opts, current_python) ==
    \/ opts # old_opts
    \/ (Truthy(opts) /\ rule \in AlwaysReapply)
    \/ (rule = "DowngradePython" /\ opts # VStr(current_python))

\* The body of detect_rules' loop over the registry, for one rule.
\* st = [rules, any_applied, changed, hits, extracts, err]; err is the
\* exception that left a match function, after which no rule is tried.
DetectStep(st, rule, unit, log, current_python) ==
    LET old_opts == st.rules[rule]
        opts == Match(rule, unit, log, old_opts, st.rules)
        hit == RuleHitCondition(rule, opts, old_opts, current_python)
    IN  IF st.err # "none" THEN st
        ELSE IF opts[1] = "raise" THEN [st EXCEPT !.err = opts[2]]
        ELSE IF ~Truthy(opts) THEN st
        ELSE [err |-> "none",
              rules |-> [st.rules EXCEPT ![rule] =
                            IF hit /\ rule \in HasExtract
                            THEN VTuple(opts[2], RustExtract(unit))
                            ELSE opts],
              any_applied |-> st.any_applied \/ hit,
              changed |-> IF opts # old_opts
                          THEN st.changed \cup {rule} ELSE st.changed,
              hits |-> IF hit THEN st.hits \cup {rule} ELSE st.hits,
              extracts |-> IF hit /\ rule \in HasExtract
                           THEN st.extracts \cup {rule} ELSE st.extracts]

RECURSIVE DetectRegistry(_, _, _, _, _)
DetectRegistry(i, st, unit, log, current_python) ==
    IF i > Len(RuleOrder) THEN st
    ELSE DetectRegistry(i + 1,
                        DetectStep(st, RuleOrder[i], unit, log, current_python),
                        unit, log, current_python)

\* load_existing_rules: the persisted state, {} when there is no rules.toml.
load_existing_rules(toml, unit) == toml[unit]

\* failures is a sequence of [unit, log] in the order load_failures found
\* them.  The result holds rules_so_far as a sequence of [unit, rules].
RECURSIVE DetectFailures(_, _, _, _, _)
DetectFailures(i, failures, toml, current_python, acc) ==
    IF i > Len(failures) \/ acc.err # "none" THEN acc
    ELSE LET f == failures[i]
             st == DetectRegistry(
                       1,
                       [rules |-> load_existing_rules(toml, f.unit),
                        any_applied |-> FALSE, changed |-> {}, hits |-> {},
                        extracts |-> {}, err |-> "none"],
                       f.unit, f.log, current_python)
         IN  DetectFailures(
                 i + 1, failures, toml, current_python,
                 [err |-> st.err,
                  any_applied |-> acc.any_applied \/ st.any_applied,
                  rules_so_far |->
                      Append(acc.rules_so_far,
                             [unit |-> f.unit, rules |-> st.rules]),
                  changed |-> acc.changed \cup
                                  {<<f.unit, r>> : r \in st.changed},
                  hits |-> acc.hits \cup {<<f.unit, r>> : r \in st.hits},
                  extracts |-> acc.extracts \cup
                                   {<<f.unit, r>> : r \in st.extracts}])

detect_rules(toml, failures, current_python) ==
    DetectFailures(1, failures, toml, current_python,
                   [err |-> "none", any_applied |-> FALSE,
                    rules_so_far |-> <<>>, changed |-> {}, hits |-> {},
                    extracts |-> {}])

----------------------------------------------------------------------------
(* Rule outputs: apply *)

EmptyMap == [k \in {} |-> <<>>]

\* Attribute values are [t, v]: the Python type and the content as strings.
AttrDict(pairs) == [t |-> "dict", v |-> pairs]

AttrList(xs) == [t |-> "list", v |-> xs]

AttrLiteral(xs) == [t |-> "literal", v |-> xs]

AttrStr(x) == [t |-> "str", v |-> <<x>>]

\* "not x" of an attribute value
AttrFalsy(a) ==
    \/ (a.t \in {"dict", "list"} /\ a.v = <<>>)
    \/ (a.t = "str" /\ a.v = <<"">>)
    \/ (a.t = "bool" /\ a.v = <<"False">>)

\* RuleOutput() with its defaults
RuleOutput ==
    [kind |-> "RuleOutput", build_systems |-> <<>>, arguments |-> {},
     src_attrset_parts |-> EmptyMap, wheel_attrset_parts |-> EmptyMap,
     requires_nixpkgs_master |-> FALSE, dep_constraints |-> EmptyMap,
     python_downgrade |-> "None", inner |-> "", reason |-> ""]

BorkedRuntimeDepsCheckApply(opts) ==
    [RuleOutput EXCEPT
        !.src_attrset_parts =
            ("env" :> AttrDict(<<"dontCheckRuntimeDeps=True">>))]

BuildInputsApply(opts) ==
    [RuleOutput EXCEPT
        !.arguments = {"pkgs"},
        !.src_attrset_parts =
            ("buildInputs" :> AttrList(Elems(opts))) @@
            ("env" :> AttrDict(<<>>)),
        !.wheel_attrset_parts = ("buildInputs" :> AttrList(Elems(opts))),
        !.requires_nixpkgs_master =
            nix_literal("pkgs.cudaPackages.cudnn") \in Range(Elems(opts))]

BuildSystemsApply(opts) == [RuleOutput EXCEPT !.build_systems = Elems(opts)]

\* "if opts is True: opts = '<2'"
DowngradeNumpyApply(opts) ==
    [RuleOutput EXCEPT
        !.dep_constraints =
            ("numpy" :> IF opts = VTrue THEN "<2" ELSE opts[2])]

DowngradePythonApply(opts) == [RuleOutput EXCEPT !.python_downgrade = opts[2]]

HomlessShelterApply(opts) ==
    [RuleOutput EXCEPT
        !.src_attrset_parts = ("env" :> AttrDict(<<"HOME=/tmp">>))]

\* A faulty variant of IsPython2Only.apply: an output without exclusion.
IsPython2OnlyNoExclusion(opts) == RuleOutput

IsPython2OnlyApply(opts) ==
    [RuleOutput EXCEPT !.kind = "RuleOutputTriggerExclusion",
                       !.reason = opts[2]]

KernelHeadersApply(opts) ==
    [RuleOutput EXCEPT
        !.arguments = {"pkgs"},
        !.src_attrset_parts =
            ("postPatch" :> AttrStr("substituteInPlace setup.py /usr/include")) @@
            ("nativeBuildInputs" :>
                 AttrList(<<nix_literal("pkgs.linuxHeaders")>>))]

MasterForTorchApply(opts) ==
    [RuleOutput EXCEPT !.requires_nixpkgs_master = TRUE]

\* opts is the dict of constraints: <<"dict", name, constraint>>.
MissingSetPartsApply(opts) ==
    [RuleOutput EXCEPT
        !.dep_constraints =
            IF Len(opts) = 3 THEN (opts[2] :> opts[3]) ELSE EmptyMap]

\* The list opts as NativeBuildInputs.apply leaves it: with pkgs.ta-lib in
\* it, the literal final.cython_0 is appended to the list itself, unless the
\* plain string "cython_0" is an element.
NativeBuildInputsOpts(opts) ==
    IF nix_literal("pkgs.ta-lib") \in Range(Elems(opts))
           /\ "cython_0" \notin Range(Elems(opts))
    THEN Append(Elems(opts), nix_literal("final.cython_0"))
    ELSE Elems(opts)

\* The names before the first dot of the elements with a dot; every modelled
\* element is a literal pkgs.<name> or final.<name>.
NativeBuildInputsArgs(xs) ==
    (IF \E x \in Range(xs) : x # nix_literal("final.cython_0")
     THEN {"pkgs"} ELSE {})
        \cup (IF nix_literal("final.cython_0") \in Range(xs)
              THEN {"final"} ELSE {})

\* No modelled input is pkgs.cmake or pkgs.meson.
NativeBuildInputsApply(opts) ==
    [RuleOutput EXCEPT
        !.arguments = NativeBuildInputsArgs(NativeBuildInputsOpts(opts)),
        !.src_attrset_parts =
            ("nativeBuildInputs" :> AttrList(NativeBuildInputsOpts(opts))) @@
            (IF nix_literal("pkgs.ta-lib") \in Range(Elems(opts))
             THEN ("env" :>
                      AttrDict(<<"TA_INCLUDE_PATH=${pkgs.ta-lib}/include",
                                 "TA_LIBRARY_PATH=${pkgs.ta-lib}/lib">>))
             ELSE EmptyMap)]

PoetryMasonryApply(opts) ==
    [RuleOutput EXCEPT
        !.src_attrset_parts =
            ("postPatch" :>
                 AttrStr("substituteInPlace pyproject.toml poetry.core.masonry.api"))]

RefindBuildDirectoryApply(opts) ==
    [RuleOutput EXCEPT
        !.arguments = {"pkgs"},
        !.src_attrset_parts = ("preBuild" :> AttrStr("cd $buildDir"))]

\* "opts, extract_result = opts" succeeds for a pair (a tuple, or the list
\* read back from rules.toml) and fails for the string "maturin".
RustApply(opts) ==
    LET extract_result ==
            IF opts[1] \in {"tuple", "list"} /\ Len(opts) = 3
            THEN opts[3] ELSE NoneAtom
        needed_patch == extract_result \notin {NoneAtom, ""}
    IN  [RuleOutput EXCEPT
            !.kind = "RuleFunctionOutput",
            !.inner = IF needed_patch
                      THEN "helpers.standardMaturin {furtherArgs = {postPatch = cp Cargo.lock;};} old"
                      ELSE "helpers.standardMaturin {} old"]

TomlRequiresPatcherApply(opts) ==
    [RuleOutput EXCEPT
        !.arguments = {"helpers"},
        !.src_attrset_parts =
            ("postPatch" :>
                 AttrStr("${helpers.tomlreplace} pyproject.toml build-system.requires"))]

Apply(rule, opts) ==
    CASE rule = "BorkedRuntimeDepsCheck" -> BorkedRuntimeDepsCheckApply(opts)
      [] rule = "BuildInputs" -> BuildInputsApply(opts)
      [] rule = "BuildSystems" -> BuildSystemsApply(opts)
      [] rule = "DowngradeNumpy" -> DowngradeNumpyApply(opts)
      [] rule = "DowngradePython" -> DowngradePythonApply(opts)
      [] rule = "HomlessShelter" -> HomlessShelterApply(opts)
      [] rule = "IsPython2Only" -> IsPython2OnlyApply(opts)
      [] rule = "KernelHeaders" -> KernelHeadersApply(opts)
      [] rule = "MasterForTorch" -> MasterForTorchApply(opts)
      [] rule = "MissingSetParts" -> MissingSetPartsApply(opts)
      [] rule = "NativeBuildInputs" -> NativeBuildInputsApply(opts)
      [] rule = "PoetryMasonry" -> PoetryMasonryApply(opts)
      [] rule = "RefindBuildDirectory" -> RefindBuildDirectoryApply(opts)
      [] rule = "Rust" -> RustApply(opts)
      [] rule = "TomlRequiresPatcher" -> TomlRequiresPatcherApply(opts)

\* The value a rule state holds for a rule after the rule's apply ran on it:
\* apply receives the object of the state, not a copy.
OptsAfterApply(rule, opts) ==
    IF rule = "NativeBuildInputs" THEN VList(NativeBuildInputsOpts(opts))
    ELSE opts

----------------------------------------------------------------------------
(* write_combined_rules: the merge *)

PatchKeys == {"postPatch", "preBuild", "preConfigure"}

AccumulationKeys == {"nativeBuildInputs", "buildInputs"}

\* The attribute keys the modelled rules write, in a fixed iteration order.
KeyOrder ==
    <<"buildInputs", "env", "nativeBuildInputs", "postPatch", "preBuild",
      "preConfigure">>

\* A faulty variant of the branch below: the last writer always wins.
LastWriterWins(old, v) == TRUE

\* The branch of the merge for a scalar/record key that is already in dest:
\* "isinstance(v, dict) and not dest[k] or dest[k] == v".
ScalarKeyAccepts(old, v) == (v.t = "dict" /\ AttrFalsy(old)) \/ old = v

\* One step of "for k, v in src.items()": m = [err, dest].
MergeKey(m, k, v) ==
    IF m.err THEN m
    ELSE IF k \in PatchKeys
    THEN LET base == IF k \in DOMAIN m.dest THEN m.dest[k]
                     ELSE AttrList(<<nix_literal("old." \o k \o " or \"\"")>>)
             new == IF v.v[1] \in Range(base.v) THEN base
                    ELSE AttrList(Append(base.v, v.v[1]))
         IN  [m EXCEPT !.dest = (k :> new) @@ m.dest]
    ELSE IF k \in AccumulationKeys
    THEN LET have == IF k \in DOMAIN m.dest THEN m.dest[k].v ELSE <<>>
         IN  [m EXCEPT !.dest = (k :> AttrList(SortedSet(have \o v.v)))
                                @@ m.dest]
    ELSE IF k \notin DOMAIN m.dest
    THEN [m EXCEPT !.dest = (k :> v) @@ m.dest]
    ELSE IF ScalarKeyAccepts(m.dest[k], v)
    THEN [m EXCEPT !.dest = (k :> v) @@ m.dest]
    ELSE [m EXCEPT !.err = TRUE]

RECURSIVE MergeParts(_, _, _)
MergeParts(i, m, parts) ==
    IF i > Len(KeyOrder) THEN m
    ELSE MergeParts(i + 1,
                    IF KeyOrder[i] \in DOMAIN parts
                    THEN MergeKey(m, KeyOrder[i], parts[KeyOrder[i]])
                    ELSE m,
                    parts)

\* The accumulators of write_combined_rules before its loop.
MergeStart ==
    [err |-> "none", function_arguments |-> {},
     src_attrset_parts |-> EmptyMap, wheel_attrset_parts |-> EmptyMap,
     pkg_build_systems |-> {}, further_funcs |-> <<>>,
     requires_nixpkgs_master |-> FALSE, dep_constraints |-> EmptyMap,
     python_downgrade |-> "None"]

\* A faulty variant of the check below: no conflict is ever seen.
NoDepConflict(have, new) == FALSE

DepConflict(have, new) ==
    \E k \in DOMAIN new : k \in DOMAIN have /\ new[k] # have[k]

DowngradeConflict(have, new) == new # "None" /\ have # "None" /\ have # new

\* The part of the loop body for a RuleOutput, given the merged attribute
\* sets s (src) and w (wheel), each [err, dest].
MergeRuleOutput(acc, out, s, w) ==
    IF s.err \/ w.err
        \/ DepConflict(acc.dep_constraints, out.dep_constraints)
        \/ DowngradeConflict(acc.python_downgrade, out.python_downgrade)
    THEN [acc EXCEPT !.err = "ValueError"]
    ELSE [acc EXCEPT
            !.pkg_build_systems = @ \cup Range(out.build_systems),
            !.function_arguments =
                @ \cup out.arguments
                  \cup (IF out.src_attrset_parts # EmptyMap
                            \/ out.wheel_attrset_parts # EmptyMap
                        THEN {"helpers"} ELSE {}),
            !.src_attrset_parts = s.dest,
            !.wheel_attrset_parts = w.dest,
            !.requires_nixpkgs_master = @ \/ out.requires_nixpkgs_master,
            !.dep_constraints = out.dep_constraints @@ @,
            !.python_downgrade =
                IF out.python_downgrade # "None"
                THEN out.python_downgrade ELSE @]

\* The body of the loop over rules_to_combine for one rule output.
MergeOutput(acc, out) ==
    IF acc.err # "none" THEN acc
    ELSE IF out.kind = "RuleFunctionOutput"
    THEN [acc EXCEPT
             !.function_arguments = @ \cup {"pkgs", "helpers"},
             !.further_funcs = Append(@, "old: " \o out.inner)]
    ELSE IF out.kind = "RuleOutputTriggerExclusion"
    THEN [acc EXCEPT !.err = "NeedsExclusion"]
    ELSE MergeRuleOutput(
             acc, out,
             MergeParts(1, [err |-> FALSE, dest |-> acc.src_attrset_parts],
                        out.src_attrset_parts),
             MergeParts(1, [err |-> FALSE, dest |-> acc.wheel_attrset_parts],
                        out.wheel_attrset_parts))

\* rules_to_combine is a function rule -> value; order is the order of its
\* keys.
RECURSIVE MergeRules(_, _, _, _)
MergeRules(i, order, rules_to_combine, acc) ==
    IF i > Len(order) THEN acc
    ELSE MergeRules(
             i + 1, order, rules_to_combine,
             IF rules_to_combine[order[i]] = PyNone THEN acc
             ELSE MergeOutput(acc, Apply(order[i],
                                         rules_to_combine[order[i]])))

\* The rules whose apply a merge calls: those up to the first exception.
Applied(order, rules_to_combine) ==
    {order[i] : i \in
        {j \in 1..Len(order) :
            /\ rules_to_combine[order[j]] # PyNone
            /\ MergeRules(1, SubSeq(order, 1, j - 1), rules_to_combine,
                          MergeStart).err = "none"}}

\* The caller's rule state after write_combined_rules.
RulesAfterMerge(order, rules_to_combine) ==
    [r \in DOMAIN rules_to_combine |->
        IF r \in Applied(order, rules_to_combine)
        THEN OptsAfterApply(r, rules_to_combine[r])
        ELSE rules_to_combine[r]]

----------------------------------------------------------------------------
(* write_combined_rules: rendering and writing *)

Without(f, k) == [x \in DOMAIN f \ {k} |-> f[x]]

Get(f, k) == IF k \in DOMAIN f THEN f[k].v ELSE <<>>

\* "( resolveBuildSystem " + nix_format(pkg_build_systems) + ")"
ResolveBuildSystem(pkg_build_systems) ==
    <<"( resolveBuildSystem">> \o SortedOf(pkg_build_systems) \o <<")">>

\* The rewriting of the merged attribute sets after the loop, key by key.
SetNativeBuildInputs(src, nbi, pkg_build_systems) ==
    IF pkg_build_systems # {} /\ nbi # <<>>
    THEN ("nativeBuildInputs" :>
              AttrLiteral(<<"old.nativeBuildInputs or [] ++">> \o nbi
                          \o <<"++">>
                          \o ResolveBuildSystem(pkg_build_systems))) @@ src
    ELSE IF pkg_build_systems # {}
    THEN ("nativeBuildInputs" :>
              AttrLiteral(<<"old.nativeBuildInputs or [] ++">>
                          \o ResolveBuildSystem(pkg_build_systems))) @@ src
    ELSE IF nbi # <<>>
    THEN ("nativeBuildInputs" :>
              AttrLiteral(<<"old.nativeBuildInputs or [] ++">> \o nbi)) @@ src
    ELSE src

SetBuildInputs(parts) ==
    IF "buildInputs" \in DOMAIN parts
    THEN ("buildInputs" :>
              AttrLiteral(<<"old.buildInputs or [] ++">>
                          \o parts["buildInputs"].v)) @@ parts
    ELSE parts

SetPostPatch(src) ==
    IF "postPatch" \in DOMAIN src
    THEN ("postPatch" :> AttrLiteral(src["postPatch"].v)) @@ src
    ELSE src

DropEmptyEnv(src) ==
    IF "env" \in DOMAIN src /\ AttrFalsy(src["env"])
    THEN Without(src, "env") ELSE src

PostProcessSrc(src, pkg_build_systems) ==
    DropEmptyEnv(SetPostPatch(SetBuildInputs(
        SetNativeBuildInputs(src, Get(src, "nativeBuildInputs"),
                             pkg_build_systems))))

PostProcessWheel(wheel) == SetBuildInputs(wheel)

\* A generated artifact; NoFile when default.nix does not exist.
NoFile == [exists |-> FALSE, head |-> {}, funcs |-> <<>>]

\* A faulty variant of the operator below: the attribute sets are left out.
NoAttrFuncs(src, wheel) == <<>>

\* The function built from the attribute sets, if there are any.
AttrFuncs(src, wheel) ==
    IF src # EmptyMap \/ wheel # EmptyMap
    THEN <<[f |-> IF src = wheel THEN "old: src"
                  ELSE "old: if isWheel then wheel else src",
            src |-> src, wheel |-> wheel]>>
    ELSE <<>>

FurtherFuncs(further_funcs) ==
    [i \in 1..Len(further_funcs) |->
        [f |-> further_funcs[i], src |-> EmptyMap, wheel |-> EmptyMap]]

\* The file text: the argument head and the list funcs.
Artifact(funcs, function_arguments, pkg_build_systems) ==
    [exists |-> Len(funcs) > 0,
     head |-> function_arguments
                  \cup (IF pkg_build_systems # {}
                        THEN {"final", "helpers", "resolveBuildSystem"}
                        ELSE {})
                  \cup (IF Len(funcs) > 1 THEN {"pkgs"} ELSE {}),
     funcs |-> funcs]

RenderArtifact(acc) ==
    Artifact(AttrFuncs(PostProcessSrc(acc.src_attrset_parts,
                                      acc.pkg_build_systems),
                       PostProcessWheel(acc.wheel_attrset_parts))
                 \o FurtherFuncs(acc.further_funcs),
             acc.function_arguments, acc.pkg_build_systems)

\* The order in which a dict of dependency constraints is iterated.
DepOrder == <<"swig", "numpy", "setuptools">>

RECURSIVE AppendDeps(_, _, _)
AppendDeps(i, deps, dep_constraints) ==
    IF i > Len(DepOrder) THEN deps
    ELSE AppendDeps(i + 1,
                    IF DepOrder[i] \in DOMAIN dep_constraints
                    THEN Append(deps, DepOrder[i]
                                          \o dep_constraints[DepOrder[i]])
                    ELSE deps,
                    dep_constraints)

\* A faulty variant of the function below: pyproject.toml stays as it is.
KeepProject(dep_constraints, pp) == pp

extend_pyproject_toml_with_dep_constraints(dep_constraints, pp) ==
    [pp EXCEPT !.deps = AppendDeps(1, @, dep_constraints)]

downgrade_python(version, pp) == [pp EXCEPT !.python = version]

\* path.write_text happens only when there is a body.
WriteFile(art, file) == IF art.exists THEN art ELSE file

\* The mutations of pyproject.toml at the end of write_combined_rules.
ExtendProject(dep_constraints, pp) ==
    IF dep_constraints # EmptyMap
    THEN extend_pyproject_toml_with_dep_constraints(dep_constraints, pp)
    ELSE pp

DowngradeProject(version, pp) ==
    IF version # "None" THEN downgrade_python(version, pp) ELSE pp

\* A faulty variant of the operator below: the project file is mutated
\* whether there is a project folder or not.
WriteMergedInProject(acc, file, has_project, pp) ==
    IF acc.err # "none"
    THEN [err |-> acc.err, file |-> file, pp |-> pp,
          requires_nixpkgs_master |-> FALSE, python_downgrade |-> "None"]
    ELSE [err |-> "none",
          file |-> WriteFile(RenderArtifact(acc), file),
          pp |-> DowngradeProject(acc.python_downgrade,
                                  ExtendProject(acc.dep_constraints, pp)),
          requires_nixpkgs_master |-> acc.requires_nixpkgs_master,
          python_downgrade |-> acc.python_downgrade]

\* write_combined_rules after its loop, acc being the merged accumulators.
WriteMerged(acc, file, has_project, pp) ==
    IF acc.err # "none"
    THEN [err |-> acc.err, file |-> file, pp |-> pp,
          requires_nixpkgs_master |-> FALSE, python_downgrade |-> "None"]
    ELSE [err |-> "none",
          file |-> WriteFile(RenderArtifact(acc), file),
          pp |-> IF has_project
                 THEN DowngradeProject(
                          acc.python_downgrade,
                          ExtendProject(acc.dep_constraints, pp))
                 ELSE pp,
          requires_nixpkgs_master |-> acc.requires_nixpkgs_master,
          python_downgrade |-> acc.python_downgrade]

\* write_combined_rules(path, rules_to_combine, project_folder): the file is
\* the content of path afterwards, pp the project's pyproject.toml.
write_combined_rules(file, order, rules_to_combine, has_project, pp) ==
    WriteMerged(MergeRules(1, order, rules_to_combine, MergeStart),
                file, has_project, pp)

----------------------------------------------------------------------------
(* write_rules *)

\* What toml.dump followed by toml.load makes of a value: a tuple comes back
\* as a list, and None inside it as the string "None".
TomlValue(v) ==
    IF v[1] = "tuple"
    THEN VList(<<v[2], IF v[3] = NoneAtom THEN "None" ELSE v[3]>>)
    ELSE v

TomlRoundTrip(rules) == [r \in DOMAIN rules |-> TomlValue(rules[r])]

\* The body of write_rules' loop for a unit with rules: rules.toml is dumped,
\* then m, the outcome of write_combined_rules, is taken over.  w holds the
\* files written so far, the values to return, the exception raised, if any,
\* and merged: the calls of write_combined_rules made, as [unit, rules, err].
WriteUnit(w, u, rules_here, m) ==
    [toml |-> [w.toml EXCEPT ![u] = TomlRoundTrip(rules_here)],
     nix |-> [w.nix EXCEPT ![u] = m.file],
     pp |-> m.pp,
     requires_nixpkgs_master |->
         w.requires_nixpkgs_master \/ m.requires_nixpkgs_master,
     python_downgrade |-> m.python_downgrade,
     err |-> m.err,
     merged |-> Append(w.merged,
                       [unit |-> u, rules |-> rules_here, err |-> m.err])]

RECURSIVE WriteUnits(_, _, _, _)
WriteUnits(i, rules_so_far, has_project, w) ==
    IF i > Len(rules_so_far) \/ w.err # "none" THEN w
    ELSE WriteUnits(
             i + 1, rules_so_far, has_project,
             IF rules_so_far[i].rules = NoRules THEN w
             ELSE WriteUnit(w, rules_so_far[i].unit, rules_so_far[i].rules,
                            write_combined_rules(
                                w.nix[rules_so_far[i].unit], SortedKeys,
                                rules_so_far[i].rules, has_project, w.pp)))

WriteStart(toml, nix, pp) ==
    [toml |-> toml, nix |-> nix, pp |-> pp,
     requires_nixpkgs_master |-> FALSE, python_downgrade |-> "None",
     err |-> "none", merged |-> <<>>]

write_rules(any_applied, rules_so_far, toml, nix, pp) ==
    IF any_applied
    THEN WriteUnits(1, rules_so_far, TRUE, WriteStart(toml, nix, pp))
    ELSE WriteStart(toml, nix, pp)

----------------------------------------------------------------------------
(* attempt_build *)

\* The substrings attempt_build looks for in the captured output of nix build.
TInfRec == "infinite recursion encountered"

TPathlib == "pathlib was removed "

TAttrSwig == "attribute 'swig' missing"

TInvalid == "while evaluating the attribute"

TNoWheel == "No compatible wheel, nor sdist found for package"

\* An "attribute '..' missing" message with final.numpy marked by a caret.
TMissingSet == "attribute 'numpy' missing"

MissingSetPartsMatch(err) ==
    IF TMissingSet \in err THEN ("numpy" :> "") ELSE EmptyMap

Outcome(kind, deps) == [kind |-> kind, deps |-> deps]

\* A faulty variant of attempt_build: the check for "while evaluating the
\* attribute" is left out.
attempt_build_unchecked(err) ==
    IF TInfRec \in err THEN Outcome("InfiniteRecursionError", EmptyMap)
    ELSE IF TPathlib \in err THEN Outcome("NeedsExclusion", EmptyMap)
    ELSE IF TAttrSwig \in err THEN Outcome("AddDependency", "swig" :> ">0")
    ELSE IF TNoWheel \in err THEN Outcome("NeedsExclusion", EmptyMap)
    ELSE IF MissingSetPartsMatch(err) # EmptyMap
         THEN Outcome("AddDependency", MissingSetPartsMatch(err))
    ELSE Outcome("return", EmptyMap)

\* What attempt_build does with the captured output: the exception it raises,
\* or "return" when it returns the attempt number.
attempt_build(err) ==
    IF TInfRec \in err THEN Outcome("InfiniteRecursionError", EmptyMap)
    ELSE IF TPathlib \in err THEN Outcome("NeedsExclusion", EmptyMap)
    ELSE IF TAttrSwig \in err THEN Outcome("AddDependency", "swig" :> ">0")
    ELSE IF TInvalid \in err THEN Outcome("ValueError", EmptyMap)
    ELSE IF TNoWheel \in err THEN Outcome("NeedsExclusion", EmptyMap)
    ELSE IF MissingSetPartsMatch(err) # EmptyMap
         THEN Outcome("AddDependency", MissingSetPartsMatch(err))
    ELSE Outcome("return", EmptyMap)

\* try_to_fix_infinite_recursion raises before it looks at uv.lock.
try_to_fix_infinite_recursion == [err |-> "ValueError", new_rules |-> <<>>]

\* flake.nix as write_flake_nix writes it: the python attribute is the
\* version without its dot.
flatpythonver(version) ==
    CASE version = "3.12" -> "312"
      [] version = "3.11" -> "311"
      [] OTHER -> version

write_flake_nix(version, nixpkgs_version) ==
    [python |-> flatpythonver(version), nixpkgs |-> nixpkgs_version]

\* A faulty variant of the increment: the attempt number stays as it is.
SameAttemptNo(n) == n

\* attempt_no += 1
NextAttemptNo(n) == n + 1

\* A faulty variant of the operator below: main returns in either case.
FinishWithZero(succeeded, trials) == [code |-> "0", reason |-> "success"]

\* How main ends: the exit code of the process (or the exception that leaves
\* main) and the reason it logs.
Finish(succeeded, trials) ==
    IF succeeded THEN [code |-> "0", reason |-> "success"]
    ELSE [code |-> "1",
          reason |-> IF trials = 0 THEN "maximum number of trials"
                     ELSE "no further rules"]

Raised == [code |-> "NeedsExclusion", reason |-> "none"]

Running == [code |-> "none", reason |-> "none"]

----------------------------------------------------------------------------
(* The environment: what nix build prints and which builds fail *)

\* Build logs of a failing unit (nix log drv), as sets of signals.
Logs ==
    {{}, {SigCudnn}, {SigPybind11Config}, {SigDistutils}, {SigPy2Only},
     {SigMaturin}, {SigBorked}, {SigHomeless},
     {SigBorked, SigHomeless, SigPy2Only}, {SigMissingDeps}}

\* Captured outputs of nix build, as sets of signals.
Stderrs ==
    {{}, {TInfRec}, {TPathlib}, {TAttrSwig}, {TInvalid}, {TNoWheel},
     {TInfRec, TInvalid}, {TPathlib, TInvalid}, {TPathlib, TAttrSwig},
     {TAttrSwig, TInvalid}, {TNoWheel, TInvalid}, {TMissingSet, TInvalid}}

\* load_failures: the failed derivations of the last attempt with their logs,
\* each unit at most once.
Failures ==
    {<<>>} \cup {<<[unit |-> u, log |-> l]>> : u \in Units, l \in Logs}

\* The initial record of the last pass: no pass has run.
NoPass ==
    [n |-> 0, failures |-> <<>>, any_applied |-> FALSE, changed |-> {},
     hits |-> {}, extracts |-> {}, err |-> "none", merged |-> <<>>]

\* No merge outside the loop.
NoCall == [order |-> <<>>, acc |-> MergeStart, rules |-> NoRules]

----------------------------------------------------------------------------
(* main: the build-retry loop *)

Init ==
    /\ pc = "loop"
    /\ attempt_no = 0
    /\ builds = 0
    /\ success = FALSE
    /\ stop = "none"
    /\ requires_nixpkgs_master = "None"
    /\ python_downgrade = "None"
    /\ stderr = {}
    /\ result = FALSE
    /\ rules_toml = [u \in Units |-> NoRules]
    /\ default_nix = [u \in Units |-> NoFile]
    /\ pyproject = [python |-> python_version, deps |-> <<>>]
    /\ flake = write_flake_nix(python_version, default_nixpkgs_version)
    /\ exit = Running
    /\ last = NoPass
    /\ call = NoCall

\* The python version the loop works with.
CurrentPython ==
    IF python_downgrade = "None" THEN python_version ELSE python_downgrade

\* The head of the loop: flake.nix is rewritten when a merge asked for it.
FlakeAtLoopHead ==
    IF requires_nixpkgs_master = "True" \/ python_downgrade # "None"
    THEN write_flake_nix(CurrentPython, default_nixpkgs_version)
    ELSE flake

\* The loop ends for the given reason: main logs and exits.
EndLoop(reason, succeeded) ==
    /\ pc' = "done"
    /\ stop' = reason
    /\ success' = succeeded
    /\ exit' = Finish(succeeded, max_trials)

\* NeedsExclusion leaves main.
Raise ==
    /\ pc' = "raised"
    /\ stop' = "excluded"
    /\ success' = FALSE
    /\ exit' = Raised

\* The loop goes on with the next attempt.
Continue ==
    /\ pc' = "loop"
    /\ attempt_no' = NextAttemptNo(attempt_no)
    /\ UNCHANGED <<stop, success, exit>>

\* One iteration up to the check of the result link: write_flake_nix,
\* attempt_build and the handlers of its exceptions.
Attempt(err, produced) ==
    /\ pc = "loop"
    /\ attempt_no < max_trials
    /\ flake' = FlakeAtLoopHead
    /\ builds' = builds + 1
    /\ stderr' = err
    /\ result' = (result \/ produced)
    /\ LET out == attempt_build(err)
       IN  CASE out.kind = "InfiniteRecursionError" ->
                  /\ EndLoop("fatal", FALSE)
                  /\ UNCHANGED <<attempt_no, pyproject>>
             [] out.kind = "NeedsExclusion" ->
                  /\ Raise
                  /\ UNCHANGED <<attempt_no, pyproject>>
             [] out.kind = "AddDependency" ->
                  /\ pyproject' = extend_pyproject_toml_with_dep_constraints(
                                      out.deps, pyproject)
                  /\ Continue
             [] out.kind = "ValueError" ->
                  /\ EndLoop("fatal", FALSE)
                  /\ UNCHANGED <<attempt_no, pyproject>>
             [] out.kind = "return" /\ result' ->
                  /\ EndLoop("success", TRUE)
                  /\ UNCHANGED <<attempt_no, pyproject>>
             [] out.kind = "return" /\ ~result' ->
                  /\ pc' = "diagnose"
                  /\ UNCHANGED <<attempt_no, pyproject, stop, success, exit>>
    /\ UNCHANGED <<requires_nixpkgs_master, python_downgrade, rules_toml,
                   default_nix, last, call>>

BoolStr(b) == IF b THEN "True" ELSE "False"

\* After write_rules: its return values are assigned and any_applied is
\* checked, or its exception leaves the loop.  d is the result of
\* detect_rules, w that of write_rules.
AfterWrite(failures, d, w) ==
    /\ rules_toml' = w.toml
    /\ default_nix' = w.nix
    /\ pyproject' = w.pp
    /\ last' = [n |-> last.n + 1, failures |-> failures,
                any_applied |-> d.any_applied, changed |-> d.changed,
                hits |-> d.hits, extracts |-> d.extracts,
                err |-> w.err, merged |-> w.merged]
    /\ CASE w.err = "NeedsExclusion" ->
              /\ Raise
              /\ UNCHANGED <<attempt_no, requires_nixpkgs_master,
                             python_downgrade>>
         [] w.err = "ValueError" ->
              /\ EndLoop("fatal", FALSE)
              /\ UNCHANGED <<attempt_no, requires_nixpkgs_master,
                             python_downgrade>>
         [] w.err = "none" ->
              /\ requires_nixpkgs_master' = BoolStr(w.requires_nixpkgs_master)
              /\ python_downgrade' = w.python_downgrade
              /\ IF d.any_applied
                 THEN Continue
                 ELSE /\ EndLoop("stuck", FALSE)
                      /\ UNCHANGED attempt_no

\* An exception left detect_rules: main's "except Exception" absorbs it and
\* nothing is written.
DetectRaised(failures, d) ==
    /\ last' = [n |-> last.n + 1, failures |-> failures,
                any_applied |-> d.any_applied, changed |-> d.changed,
                hits |-> d.hits, extracts |-> d.extracts,
                err |-> d.err, merged |-> <<>>]
    /\ EndLoop("fatal", FALSE)
    /\ UNCHANGED <<attempt_no, requires_nixpkgs_master, python_downgrade,
                   rules_toml, default_nix, pyproject>>

AfterDetect(failures, d) ==
    IF d.err # "none" THEN DetectRaised(failures, d)
    ELSE AfterWrite(failures, d,
                    write_rules(d.any_applied, d.rules_so_far, rules_toml,
                                default_nix, pyproject))

\* The rest of the iteration: load_failures, detect_rules, write_rules and
\* the check of any_applied.
Diagnose(failures) ==
    /\ pc = "diagnose"
    /\ AfterDetect(failures,
                   detect_rules(rules_toml, failures, CurrentPython))
    /\ UNCHANGED <<builds, stderr, result, flake, call>>

\* while attempt_no < max_trials: the condition fails.
LoopExit ==
    /\ pc = "loop"
    /\ attempt_no >= max_trials
    /\ EndLoop("bound", FALSE)
    /\ UNCHANGED <<attempt_no, builds, requires_nixpkgs_master,
                   python_downgrade, stderr, result, rules_toml, default_nix,
                   pyproject, flake, last, call>>

Next ==
    \/ \E err \in Stderrs, produced \in BOOLEAN : Attempt(err, produced)
    \/ \E failures \in Failures : Diagnose(failures)
    \/ LoopExit

Spec == Init /\ [][Next]_vars

----------------------------------------------------------------------------
(* main from its set-up on: the project folder may hold the result link of *)
(* an earlier run.                                                         *)

\* A faulty variant of the operator below: the link is left where it is.
KeepOldResult(exists) == exists

\* "if (project_folder / 'result').exists(): unlink()": whether the link
\* exists afterwards.
RemoveOldResult(exists) == FALSE

RunInit ==
    /\ pc = "setup"
    /\ result \in BOOLEAN
    /\ attempt_no = 0
    /\ builds = 0
    /\ success = FALSE
    /\ stop = "none"
    /\ requires_nixpkgs_master = "None"
    /\ python_downgrade = "None"
    /\ stderr = {}
    /\ rules_toml = [u \in Units |-> NoRules]
    /\ default_nix = [u \in Units |-> NoFile]
    /\ pyproject = [python |-> python_version, deps |-> <<>>]
    /\ flake = write_flake_nix(python_version, default_nixpkgs_version)
    /\ exit = Running
    /\ last = NoPass
    /\ call = NoCall

\* The set-up of main before the loop.
Setup ==
    /\ pc = "setup"
    /\ result' = RemoveOldResult(result)
    /\ pc' = "loop"
    /\ UNCHANGED <<attempt_no, builds, success, stop, requires_nixpkgs_master,
                   python_downgrade, stderr, rules_toml, default_nix,
                   pyproject, flake, exit, last, call>>

RunNext ==
    \/ Setup
    \/ Next

RunSpec == RunInit /\ [][RunNext]_vars

----------------------------------------------------------------------------
(* The loop for a unit whose builds fail on numpy *)

NumpyLogs == {{}, {SigIntT, SigNpIntT}, {SigNumpyDistutils}}

NumpyFailures ==
    {<<>>} \cup {<<[unit |-> u, log |-> l]>> : u \in Units, l \in NumpyLogs}

NumpyNext ==
    \/ \E produced \in BOOLEAN : Attempt({}, produced)
    \/ \E failures \in NumpyFailures : Diagnose(failures)
    \/ LoopExit

NumpySpec == Init /\ [][NumpyNext]_vars

----------------------------------------------------------------------------
(* Merges of a persisted rule state: main in rewrite-only mode, and        *)
(* write_rules for a unit whose state was loaded from rules.toml.          *)

\* The largest number of rules in a persisted rule state.
MaxRules == 3

target_pkg == "p"

\* The entries a rules.toml may hold: <<rule, value>>.
RuleStates ==
    {<<"BorkedRuntimeDepsCheck", VTrue>>,
     <<"BuildInputs", VList(<<nix_literal("pkgs.cudaPackages.cudnn")>>)>>,
     <<"BuildSystems", VList(<<"setuptools">>)>>,
     <<"DowngradeNumpy", VStr("<2")>>,
     <<"DowngradeNumpy", VStr("<1.22")>>,
     <<"DowngradePython", VStr("3.11")>>,
     <<"HomlessShelter", VTrue>>,
     <<"IsPython2Only", VStr("Is_python2_only")>>,
     <<"KernelHeaders", VTrue>>,
     <<"MasterForTorch", VTrue>>,
     <<"MissingSetParts", VDict("numpy", "")>>,
     <<"MissingSetParts", VDict("numpy", "<2")>>,
     <<"NativeBuildInputs", VList(<<nix_literal("pkgs.pkg-config"),
                                    nix_literal("pkgs.zlib.dev")>>)>>,
     <<"NativeBuildInputs", VList(<<nix_literal("pkgs.zlib.dev"),
                                    nix_literal("pkgs.linuxHeaders"),
                                    nix_literal("pkgs.gfortran")>>)>>,
     <<"NativeBuildInputs", VList(<<nix_literal("pkgs.ta-lib")>>)>>,
     <<"PoetryMasonry", VTrue>>,
     <<"RefindBuildDirectory", VTrue>>,
     <<"Rust", VList(<<"maturin", "None">>)>>,
     <<"TomlRequiresPatcher",
       VList(<<"True", "False", "False", "False", "False", "False">>)>>}

KeyPos(r) == CHOOSE i \in 1..Len(SortedKeys) : SortedKeys[i] = r

\* The rule state with the entries cs, and the order of its keys.
StateOf(cs) ==
    [r \in KeyNames |->
        IF \E i \in 1..Len(cs) : cs[i][1] = r
        THEN cs[CHOOSE i \in 1..Len(cs) : cs[i][1] = r][2]
        ELSE PyNone]

OrderOf(cs) == [i \in 1..Len(cs) |-> cs[i][1]]

\* A rules.toml holds every key once, in any order; write_rules sorts the
\* keys, so that the order matters in rewrite-only mode alone.
MergeInit ==
    /\ \E n \in 0..MaxRules : \E cs \in [1..n -> RuleStates] :
         \E mode \in {"rewrite", "write"} :
            /\ \A i, j \in 1..n : i # j => cs[i][1] # cs[j][1]
            /\ mode = "write"
                   => \A i, j \in 1..n :
                          i < j => KeyPos(cs[i][1]) < KeyPos(cs[j][1])
            /\ pc = mode
            /\ rules_toml = [u \in Units |-> StateOf(cs)]
            /\ call = [order |-> OrderOf(cs), acc |-> MergeStart,
                       rules |-> NoRules]
    /\ attempt_no = 0
    /\ builds = 0
    /\ success = FALSE
    /\ stop = "none"
    /\ requires_nixpkgs_master = "None"
    /\ python_downgrade = "None"
    /\ stderr = {}
    /\ result = FALSE
    /\ default_nix = [u \in Units |-> NoFile]
    /\ pyproject = [python |-> python_version, deps |-> <<>>]
    /\ flake = write_flake_nix(python_version, default_nixpkgs_version)
    /\ exit = Running
    /\ last = NoPass

\* An exception leaves main.
Uncaught(exception) == [code |-> exception, reason |-> "none"]

\* main returns after the rewrite.
Returned == [code |-> "0", reason |-> "rewrite"]

\* After write_combined_rules in rewrite-only mode: m is its outcome, acc
\* the accumulators at the end of its loop, rules the rule state in memory.
Rewritten(m, acc, rules) ==
    /\ default_nix' = [default_nix EXCEPT ![target_pkg] = m.file]
    /\ pyproject' = m.pp
    /\ call' = [call EXCEPT !.acc = acc, !.rules = rules]
    /\ pc' = IF m.err = "none" THEN "done" ELSE "raised"
    /\ exit' = IF m.err = "none" THEN Returned ELSE Uncaught(m.err)

\* main with --rewrite: the rule state of the target is loaded and merged
\* without a project folder.
Rewrite ==
    /\ pc = "rewrite"
    /\ IF load_existing_rules(rules_toml, target_pkg) = NoRules
       THEN /\ pc' = "raised"
            /\ exit' = Uncaught("ValueError")
            /\ UNCHANGED <<default_nix, pyproject, call>>
       ELSE Rewritten(
                write_combined_rules(
                    default_nix[target_pkg], call.order,
                    load_existing_rules(rules_toml, target_pkg), FALSE,
                    pyproject),
                MergeRules(1, call.order,
                           load_existing_rules(rules_toml, target_pkg),
                           MergeStart),
                RulesAfterMerge(call.order,
                                load_existing_rules(rules_toml, target_pkg)))
    /\ UNCHANGED <<attempt_no, builds, success, stop,
                   requires_nixpkgs_master, python_downgrade, stderr, result,
                   rules_toml, flake, last>>

\* After write_rules: w is its outcome, acc the accumulators at the end of
\* the merge loop of the unit, rules the rule state in memory.
Written(w, acc, rules) ==
    /\ rules_toml' = w.toml
    /\ default_nix' = w.nix
    /\ pyproject' = w.pp
    /\ last' = [last EXCEPT !.any_applied = TRUE, !.err = w.err,
                            !.merged = w.merged]
    /\ call' = [call EXCEPT !.acc = acc, !.rules = rules]
    /\ pc' = IF w.err = "none" THEN "written" ELSE "raised"
    /\ exit' = IF w.err = "none" THEN exit ELSE Uncaught(w.err)
    /\ requires_nixpkgs_master' =
           IF w.err = "none" THEN BoolStr(w.requires_nixpkgs_master)
           ELSE requires_nixpkgs_master
    /\ python_downgrade' =
           IF w.err = "none" THEN w.python_downgrade ELSE python_downgrade

\* write_rules(True, rules_so_far, ...) for the target with the rule state
\* loaded from its rules.toml, in a project folder.
WriteRules ==
    /\ pc = "write"
    /\ Written(write_rules(TRUE,
                           <<[unit |-> target_pkg,
                              rules |-> load_existing_rules(rules_toml,
                                                            target_pkg)]>>,
                           rules_toml, default_nix, pyproject),
               IF load_existing_rules(rules_toml, target_pkg) = NoRules
               THEN MergeStart
               ELSE MergeRules(1, SortedKeys,
                               load_existing_rules(rules_toml, target_pkg),
                               MergeStart),
               RulesAfterMerge(SortedKeys,
                               load_existing_rules(rules_toml, target_pkg)))
    /\ UNCHANGED <<attempt_no, builds, success, stop, stderr, result, flake>>

MergeNext ==
    \/ Rewrite
    \/ WriteRules

MergeSpec == MergeInit /\ [][MergeNext]_vars

----------------------------------------------------------------------------
(* main in either mode: the retry loop, or the rewrite of one unit *)

MainInit ==
    \/ RunInit
    \/ (MergeInit /\ pc = "rewrite")

MainNext ==
    \/ Setup
    \/ Next
    \/ Rewrite

MainSpec == MainInit /\ [][MainNext]_vars

\* The exit status of the process: that of sys.exit, 0 when main returns,
\* and 1 when an exception leaves main.
ExitStatus(e) ==
    CASE e.code \in {"none", "0", "1"} -> e.code
      [] OTHER -> "1"

----------------------------------------------------------------------------
(* nix_format.py: the markers of paths and literals, and nix_format on    *)
(* strings. A string is the sequence of its characters here, so that the  *)
(* slices of nix_format cut where Python cuts.                            *)

MaxLen == 3

\* The characters the strings are made of: a letter, the first character
\* of both markers, and the three characters nix_format treats specially.
Alphabet == {"a", "~", "\"", "'", "\n"}

Strings == UNION {[1..n -> Alphabet] : n \in 0..MaxLen}

\* Every variable of main but pc and call, as main finds them.
OutsideMain ==
    /\ attempt_no = 0
    /\ builds = 0
    /\ success = FALSE
    /\ stop = "none"
    /\ requires_nixpkgs_master = "None"
    /\ python_downgrade = "None"
    /\ stderr = {}
    /\ result = FALSE
    /\ rules_toml = [u \in Units |-> NoRules]
    /\ default_nix = [u \in Units |-> NoFile]
    /\ pyproject = [python |-> python_version, deps |-> <<>>]
    /\ flake = write_flake_nix(python_version, default_nixpkgs_version)
    /\ exit = Running
    /\ last = NoPass

MainUntouched ==
    UNCHANGED <<attempt_no, builds, success, stop, requires_nixpkgs_master,
                python_downgrade, stderr, result, rules_toml, default_nix,
                pyproject, flake, exit, last>>

\* "~path~:!:"
PathMarker == <<"~", "p", "a", "t", "h", "~", ":", "!", ":">>

\* "~literal:!:"
LiteralMarker == <<"~", "l", "i", "t", "e", "r", "a", "l", ":", "!", ":">>

nix_path(path) == PathMarker \o path

\* nix_literal on a sequence of characters.
nix_literal_of(path) == LiteralMarker \o path

\* str.startswith
StartsWith(value, prefix) ==
    /\ Len(value) >= Len(prefix)
    /\ SubSeq(value, 1, Len(prefix)) = prefix

\* value[n:]
SliceFrom(value, n) == SubSeq(value, n + 1, Len(value))

\* value.replace("''", "'''")
RECURSIVE ReplaceQuotes(_)
ReplaceQuotes(value) ==
    IF value = <<>> THEN <<>>
    ELSE IF Len(value) >= 2 /\ value[1] = "'" /\ value[2] = "'"
    THEN <<"'", "'", "'">> \o ReplaceQuotes(SliceFrom(value, 2))
    ELSE <<value[1]>> \o ReplaceQuotes(Tail(value))

\* value.replace('"', '\\"')
RECURSIVE EscapeQuotes(_)
EscapeQuotes(value) ==
    IF value = <<>> THEN <<>>
    ELSE (IF value[1] = "\"" THEN <<"\\", "\"">> ELSE <<value[1]>>)
             \o EscapeQuotes(Tail(value))

\* nix_format of a str.
nix_format(value) ==
    IF StartsWith(value, PathMarker)
    THEN <<".", "/">> \o SliceFrom(value, 8)
    ELSE IF StartsWith(value, LiteralMarker)
    THEN SliceFrom(value, 11)
    ELSE IF "\n" \in Range(value)
    THEN <<"'", "'">> \o ReplaceQuotes(value) \o <<"'", "'">>
    ELSE <<"\"">> \o EscapeQuotes(value) \o <<"\"">>

\* A string is marked as a path or a literal, or left as it is, and then
\* formatted.
FormatInit ==
    /\ pc = "mark"
    /\ \E s \in Strings :
           call = [arg |-> s, via |-> "none", value |-> <<>>, out |-> <<>>]
    /\ OutsideMain

MarkPath ==
    /\ pc = "mark"
    /\ call' = [call EXCEPT !.via = "nix_path", !.value = nix_path(call.arg)]
    /\ pc' = "format"
    /\ MainUntouched

MarkLiteral ==
    /\ pc = "mark"
    /\ call' = [call EXCEPT !.via = "nix_literal",
                            !.value = nix_literal_of(call.arg)]
    /\ pc' = "format"
    /\ MainUntouched

MarkNothing ==
    /\ pc = "mark"
    /\ call' = [call EXCEPT !.via = "str", !.value = call.arg]
    /\ pc' = "format"
    /\ MainUntouched

Format ==
    /\ pc = "format"
    /\ call' = [call EXCEPT !.out = nix_format(call.value)]
    /\ pc' = "formatted"
    /\ MainUntouched

FormatNext ==
    \/ MarkPath
    \/ MarkLiteral
    \/ MarkNothing
    \/ Format

FormatSpec == FormatInit /\ [][FormatNext]_vars

----------------------------------------------------------------------------
(* get_pypi_json: the cache of package-index answers. Times are counted   *)
(* in hours.                                                              *)

MaxHours == 26

\* "60 * 60 * 24" seconds
CacheWindow == 24

\* fn of get_pypi_json: the cached file and its st_mtime; now is
\* time.time(), force the argument of the last call, served where the last
\* call took its answer from.
CacheInit ==
    /\ pc = "cache"
    /\ \E now \in 0..MaxHours : \E exists \in BOOLEAN :
         \E mtime \in 0..now :
            /\ ~exists => mtime = 0
            /\ call = [exists |-> exists, mtime |-> mtime, now |-> now,
                       force |-> FALSE, served |-> "none"]
    /\ OutsideMain

\* "if force or not fn.exists() or (fn.stat().st_mtime - time.time()) >
\* 60 * 60 * 24"
Refetches(force, exists, mtime, now) ==
    force \/ ~exists \/ (mtime - now) > CacheWindow

get_pypi_json(force) ==
    /\ pc = "cache"
    /\ call' = IF Refetches(force, call.exists, call.mtime, call.now)
               THEN [call EXCEPT !.exists = TRUE, !.mtime = call.now,
                                 !.force = force, !.served = "network"]
               ELSE [call EXCEPT !.force = force, !.served = "cache"]
    /\ UNCHANGED pc
    /\ MainUntouched

\* An hour passes between two calls.
Tick ==
    /\ pc = "cache"
    /\ call.now < MaxHours
    /\ call' = [call EXCEPT !.now = call.now + 1, !.served = "none"]
    /\ UNCHANGED pc
    /\ MainUntouched

CacheNext ==
    \/ \E force \in BOOLEAN : get_pypi_json(force)
    \/ Tick

CacheSpec == CacheInit /\ [][CacheNext]_vars

----------------------------------------------------------------------------
(* The loop when an attempt can fail in two units: load_failures returns  *)
(* one failure per failing derivation.                                    *)

FailingUnits == {"p", "q"}

UnitLogs == {{}, {SigDistutils}, {SigHomeless}}

\* One or two failures, no unit twice, in either order.
UnitFailures ==
    {<<>>}
    \cup {<<[unit |-> u, log |-> l]>> : u \in FailingUnits, l \in UnitLogs}
    \cup {fs \in {<<[unit |-> u1, log |-> l1], [unit |-> u2, log |-> l2]>> :
                     u1 \in FailingUnits, u2 \in FailingUnits,
                     l1 \in UnitLogs, l2 \in UnitLogs} :
            fs[1].unit # fs[2].unit}

UnitsInit ==
    /\ pc = "loop"
    /\ attempt_no = 0
    /\ builds = 0
    /\ success = FALSE
    /\ stop = "none"
    /\ requires_nixpkgs_master = "None"
    /\ python_downgrade = "None"
    /\ stderr = {}
    /\ result = FALSE
    /\ rules_toml = [u \in FailingUnits |-> NoRules]
    /\ default_nix = [u \in FailingUnits |-> NoFile]
    /\ pyproject = [python |-> python_version, deps |-> <<>>]
    /\ flake = write_flake_nix(python_version, default_nixpkgs_version)
    /\ exit = Running
    /\ last = NoPass
    /\ call = NoCall

UnitsNext ==
    \/ \E produced \in BOOLEAN : Attempt({}, produced)
    \/ \E failures \in UnitFailures : Diagnose(failures)
    \/ LoopExit

UnitsSpec == UnitsInit /\ [][UnitsNext]_vars

----------------------------------------------------------------------------
(* Properties *)

\* main has left the loop.
Ended == pc \in {"done", "raised"}

\* The step is a call of attempt_build.
BuildRan == builds' = builds + 1

\* The step is a pass of detect_rules and write_rules.
PassRan == last'.n = last.n + 1

\* No step is taken once main has left the loop.
NoStepAfterEnd == ~Ended

\* A measure every step of the loop decreases.
Rank ==
    IF Ended THEN 0
    ELSE 2 * (max_trials - attempt_no) + (IF pc = "loop" THEN 2 ELSE 1)

C1_Bounded ==
    /\ builds <= max_trials
    /\ attempt_no <= max_trials
    /\ Rank >= 0
    /\ Ended => stop \in {"success", "bound", "stuck", "fatal", "excluded"}
    /\ stop = "success" => result
    /\ stop = "bound" => attempt_no = max_trials
    /\ stop = "stuck" => last.changed = {} /\ ~last.any_applied

\* C1: every run of the retry loop terminates: nix build is called at most
\* max_trials times, every step of the loop decreases a non-negative
\* measure, and the loop ends by success, by the attempt bound, by a pass in
\* which no rule decision changed, or by an error.
C1_LoopTerminates == []C1_Bounded /\ [][Rank' < Rank]_vars

\* A run that used all max_trials attempts and ended at the bound.
C1_ReachesBound == pc = "done" /\ stop = "bound" /\ builds = max_trials

\* C2: a pass in which no rule's decision changed ends the run: no further
\* build attempt follows it.
C2_UnchangedPassStops ==
    [][(PassRan /\ last'.changed = {}) => pc' = "done"]_vars

\* A pass that reported progress although no decision changed, and then only
\* for rules marked always_reapply.
ReapplyOnly(l) ==
    /\ l.any_applied
    /\ l.changed = {}
    /\ l.hits \subseteq {<<u, r>> : u \in Units, r \in AlwaysReapply}

\* C3: a rule marked always_reapply counts as progress at most once: a pass
\* whose only progress is an unchanged always_reapply rule is not followed by
\* another such pass.
C3_ReapplyProgressOnce ==
    [][(PassRan /\ ReapplyOnly(last)) => ~ReapplyOnly(last')]_vars

\* C4: when a pass sees the same failures as the pass before it, which
\* recorded its decisions, no rule other than those marked always_reapply
\* reports a changed decision.
C4_MatchIdempotent ==
    [][(PassRan /\ last.n >= 1 /\ last.err = "none"
            /\ last'.failures = last.failures)
        => \A c \in last'.changed : c[2] \in AlwaysReapply]_vars

\* The position of a rule in the order of the merge.
Pos(r) == CHOOSE i \in 1..Len(RuleOrder) : RuleOrder[i] = r

ScalarKeys(parts) == DOMAIN parts \ (AccumulationKeys \cup PatchKeys)

\* The pairs of values two rules of a rule state write to the same scalar
\* key of the same attribute set, the earlier rule's value first.
ScalarWritePairs(rules) ==
    LET present == {r \in RuleNames : rules[r] # PyNone}
        src(r) == Apply(r, rules[r]).src_attrset_parts
        wheel(r) == Apply(r, rules[r]).wheel_attrset_parts
    IN  UNION {
            {<<src(r1)[k], src(r2)[k]>> :
                k \in ScalarKeys(src(r1)) \cap ScalarKeys(src(r2))}
            \cup {<<wheel(r1)[k], wheel(r2)[k]>> :
                k \in ScalarKeys(wheel(r1)) \cap ScalarKeys(wheel(r2))} :
            <<r1, r2>> \in {q \in present \X present : Pos(q[1]) < Pos(q[2])}}

\* C5: when write_combined_rules completes without an error, any two rules
\* writing the same scalar key wrote equal values, or the earlier value is
\* empty and the later one a mapping (which then replaces it); every other
\* difference ends the merge with an error.
C5_ConflictIsError ==
    \A i \in DOMAIN last.merged :
        last.merged[i].err = "none" =>
            \A q \in ScalarWritePairs(last.merged[i].rules) :
                q[1] = q[2] \/ (AttrFalsy(q[1]) /\ q[2].t = "dict")

\* A merge that two different values for a scalar key ended with ValueError.
C5_ConflictRaised ==
    /\ stop = "fatal"
    /\ \E i \in DOMAIN last.merged :
           /\ last.merged[i].err = "ValueError"
           /\ \E q \in ScalarWritePairs(last.merged[i].rules) : q[1] # q[2]

\* The statement without the exception: a merge that completes saw no two
\* different values for a scalar key.
C5_AnyDifferenceIsError ==
    \A i \in DOMAIN last.merged :
        last.merged[i].err = "none" =>
            \A q \in ScalarWritePairs(last.merged[i].rules) : q[1] = q[2]

\* C6: a pass whose merge raises leaves rules.toml and default.nix of every
\* unit as they were before the pass.
C6_WritesOnlyAfterMerge ==
    [][(PassRan /\ last'.err # "none")
        => (rules_toml' = rules_toml /\ default_nix' = default_nix)]_vars

\* C7: attempt 0 printing "infinite recursion encountered" with a cycle in
\* the lock graph is followed by attempt 1, with a rule decision injected.
C7_CycleRecovery ==
    [][(BuildRan /\ attempt_no = 0 /\ TInfRec \in stderr'
            /\ find_cycles_in_uv_lock # {})
        => (pc' = "loop" /\ attempt_no' = 1 /\ rules_toml' # rules_toml)]_vars

\* C8: an attempt made after a merge returned a python downgrade runs with
\* requires-python and flake.nix at the downgraded version and with a nixpkgs
\* snapshot other than the default one.
C8_DowngradeUsesNewerSnapshot ==
    [][(BuildRan /\ python_downgrade # "None")
        => /\ pyproject.python = python_downgrade
           /\ flake'.python = flatpythonver(python_downgrade)
           /\ flake'.nixpkgs # default_nixpkgs_version]_vars

\* The rules whose apply yields an exclusion.
ExclusionRules == {"IsPython2Only"}

HasExclusion(rules) == \E r \in ExclusionRules : rules[r] # PyNone

\* The error, if any, of merging the rules that come before the first
\* exclusion rule of the state.
ErrBeforeExclusion(rules) ==
    LET first == CHOOSE r \in ExclusionRules :
                     /\ rules[r] # PyNone
                     /\ \A o \in ExclusionRules :
                            rules[o] # PyNone => Pos(r) <= Pos(o)
    IN  MergeRules(1, SubSeq(RuleOrder, 1, Pos(first) - 1), rules,
                   MergeStart).err

C11_AddDependencyOnly ==
    [][(BuildRan /\ TAttrSwig \in stderr' /\ TInfRec \notin stderr'
            /\ TPathlib \notin stderr')
        => /\ pyproject' = [pyproject EXCEPT !.deps = Append(@, "swig>0")]
           /\ rules_toml' = rules_toml
           /\ default_nix' = default_nix
           /\ last' = last
           /\ attempt_no' = attempt_no + 1
           /\ pc' = "loop"]_vars

\* The dependency was added after an attempt and the loop goes on.
C11_DependencyAdded ==
    /\ pc = "loop"
    /\ attempt_no = 1
    /\ TAttrSwig \in stderr
    /\ pyproject.deps = <<"swig>0">>

\* The statement for every output that holds the signal.
C11_SignalAlwaysAdds ==
    [][(BuildRan /\ TAttrSwig \in stderr')
        => /\ pyproject' = [pyproject EXCEPT !.deps = Append(@, "swig>0")]
           /\ attempt_no' = attempt_no + 1
           /\ pc' = "loop"]_vars

\* A merge outside the loop is about to run.
MergeRuns == pc \in {"rewrite", "write"}

\* Two entries of a rule state whose outputs constrain the same dependency
\* differently.
DepClash(rules) ==
    \E r1, r2 \in KeyNames :
        /\ r1 # r2 /\ rules[r1] # PyNone /\ rules[r2] # PyNone
        /\ \E k \in DOMAIN Apply(r1, rules[r1]).dep_constraints :
               /\ k \in DOMAIN Apply(r2, rules[r2]).dep_constraints
               /\ Apply(r1, rules[r1]).dep_constraints[k]
                      # Apply(r2, rules[r2]).dep_constraints[k]

\* C12: a merge of a rule state in which two rule outputs give different
\* constraints for the same dependency ends in an exception (ValueError when
\* the state holds no excluding rule), and leaves default.nix and
\* pyproject.toml as they were.
C12_DepConflictIsError ==
    [][(MergeRuns /\ DepClash(rules_toml[target_pkg]))
        => /\ pc' = "raised"
           /\ exit'.code \in {"ValueError", "NeedsExclusion"}
           /\ (rules_toml[target_pkg]["IsPython2Only"] = PyNone
                  => exit'.code = "ValueError")
           /\ default_nix' = default_nix
           /\ pyproject' = pyproject]_vars

\* write_rules has merged, in a project folder, a state with DowngradeNumpy
\* and a different constraint for numpy in MissingSetParts.
C12_DepConflictRaised ==
    /\ pc = "raised" /\ last.any_applied
    /\ exit.code = "ValueError"
    /\ rules_toml[target_pkg]["DowngradeNumpy"] = VStr("<2")
    /\ rules_toml[target_pkg]["MissingSetParts"] = VDict("numpy", "")
    /\ rules_toml[target_pkg]["DowngradePython"] = VStr("3.11")
    /\ pyproject = [python |-> python_version, deps |-> <<>>]
    /\ default_nix[target_pkg] = NoFile

\* C13: a pass that decides numpy<1.22 for a unit whose persisted state
\* holds numpy<2 from an earlier pass ends in the fatal merge error and adds
\* nothing to pyproject.toml.
C13_SecondConstraintIsFatal ==
    [][(PassRan
        /\ rules_toml[target_pkg]["DowngradeNumpy"] = VStr("<2")
        /\ last'.failures # <<>>
        /\ SigNumpyDistutils \in last'.failures[1].log)
        => /\ last'.err = "ValueError"
           /\ stop' = "fatal"
           /\ pyproject' = pyproject]_vars

\* A merge outside the loop has run to its end without an exception.
Merged == pc \in {"done", "written"}

\* The entries of a rule state whose output writes key k of the given
\* attribute set ("src_attrset_parts" or "wheel_attrset_parts").
Writers(rules, part, k) ==
    {r \in KeyNames : rules[r] # PyNone /\ k \in DOMAIN Apply(r, rules[r])[part]}

\* Everything the entries of a rule state put under key k.
UnionOf(rules, part, k) ==
    UNION {Range(Apply(r, rules[r])[part][k].v) : r \in Writers(rules, part, k)}

\* C14: after a merge, each of nativeBuildInputs and buildInputs holds, in
\* the source and in the wheel attribute set, the sorted duplicate-free union
\* of what the rule outputs put under it: a value that depends on the rule
\* state alone, whatever the order of its keys.
C14_AccumulationIsSortedUnion ==
    Merged =>
        \A part \in {"src_attrset_parts", "wheel_attrset_parts"} :
            \A k \in AccumulationKeys :
                IF Writers(rules_toml[target_pkg], part, k) = {}
                THEN k \notin DOMAIN call.acc[part]
                ELSE /\ k \in DOMAIN call.acc[part]
                     /\ call.acc[part][k] =
                            AttrList(SortedOf(
                                UnionOf(rules_toml[target_pkg], part, k)))

\* A rewrite has merged an unsorted NativeBuildInputs before KernelHeaders,
\* both naming pkgs.linuxHeaders.
C14_UnionMerged ==
    /\ pc = "done"
    /\ call.order = <<"NativeBuildInputs", "KernelHeaders">>
    /\ rules_toml[target_pkg]["NativeBuildInputs"] =
           VList(<<nix_literal("pkgs.zlib.dev"),
                   nix_literal("pkgs.linuxHeaders"),
                   nix_literal("pkgs.gfortran")>>)
    /\ call.acc.src_attrset_parts["nativeBuildInputs"] =
           AttrList(<<nix_literal("pkgs.gfortran"),
                      nix_literal("pkgs.linuxHeaders"),
                      nix_literal("pkgs.zlib.dev")>>)

\* The attribute sets of the functions of an artifact.
RenderedSets(file) ==
    {file.funcs[i].src : i \in 1..Len(file.funcs)}
        \cup {file.funcs[i].wheel : i \in 1..Len(file.funcs)}

\* C15: in the artifact a merge has written, every one of postPatch, preBuild
\* and preConfigure, in the source and in the wheel attribute set, is one
\* string expression that starts with the base (old.<key> or "") and goes on
\* with the fragments; it is not a list.
C15_PatchKeysAreOneExpression ==
    Merged =>
        \A set \in RenderedSets(default_nix[target_pkg]) :
            \A k \in PatchKeys \cap DOMAIN set :
                /\ set[k].t = "literal"
                /\ set[k].v[1] = nix_literal("old." \o k \o " or \"\"")
                /\ Len(set[k].v) > 1

\* The accumulators at the end of the merge loop leave nothing to render:
\* no raw function, no build system, an empty wheel attribute set and a
\* source attribute set that is empty or holds an empty env only.
NothingToRender(acc) ==
    /\ acc.further_funcs = <<>>
    /\ acc.pkg_build_systems = {}
    /\ acc.wheel_attrset_parts = EmptyMap
    /\ \/ acc.src_attrset_parts = EmptyMap
       \/ /\ DOMAIN acc.src_attrset_parts = {"env"}
          /\ AttrFalsy(acc.src_attrset_parts["env"])

\* C16: a merge writes default.nix exactly when the attribute sets it would
\* render (the merged sets with the build systems folded in and an empty env
\* dropped) or the list of raw functions are not empty; otherwise the file
\* is left as it was, absent.
C16_NoEmptyArtifact ==
    Merged =>
        IF NothingToRender(call.acc)
        THEN default_nix[target_pkg] = NoFile
        ELSE /\ default_nix[target_pkg].exists
             /\ default_nix[target_pkg].funcs # <<>>

\* write_rules has merged a state that holds a dependency constraint and a
\* python downgrade only: pyproject.toml has changed, no default.nix exists.
C16_OnlyProjectChanged ==
    /\ pc = "written"
    /\ rules_toml[target_pkg]["DowngradeNumpy"] = VStr("<2")
    /\ rules_toml[target_pkg]["DowngradePython"] = VStr("3.11")
    /\ pyproject = [python |-> "3.11", deps |-> <<"numpy<2">>]
    /\ default_nix[target_pkg] = NoFile

RewriteCompleted == pc = "done" /\ call.order # <<>>

\* C18: when main has ended, the exit status is 0 if the retry loop
\* succeeded or the rewrite of rewrite-only mode completed, and 1 otherwise:
\* when the loop stopped stuck, at the attempt bound, or by an error in an
\* attempt or in a merge, and when an exception left main.
C18_ExitStatus ==
    Ended =>
        /\ ExitStatus(exit) \in {"0", "1"}
        /\ ExitStatus(exit) = "0" <=> (stop = "success" \/ RewriteCompleted)
        /\ stop \in {"stuck", "bound", "fatal", "excluded"}
               => ExitStatus(exit) = "1"
        /\ stop = "success" <=> success

\* The loop ended by the ValueError of a merge, with exit status 1.
C18_FatalMergeExitsWithOne ==
    /\ pc = "done" /\ stop = "fatal" /\ last.err = "ValueError"
    /\ last.n > 0 /\ ~success
    /\ ExitStatus(exit) = "1"

\* C19: when the loop has ended because the attempt counter reached the
\* bound, the reason main logs is that the maximum number of trials was
\* reached, and when it has ended because no rule applied, that there were
\* no further rules.
C19_ReasonTellsBoundFromStuck ==
    /\ stop = "bound" => exit.reason = "maximum number of trials"
    /\ stop = "stuck" => exit.reason = "no further rules"

\* C20: no match function raises: every pass of detect_rules over the
\* failures of an attempt, whatever their logs hold, runs through the whole
\* registry and returns.
C20_MatchNeverRaises ==
    [][PassRan
        => detect_rules(rules_toml, last'.failures, CurrentPython).err
               = "none"]_vars

\* C21: a merge leaves the rule state it was given as it was: after the
\* call the state in memory equals the state of rules.toml, and rendering it
\* again gives the same artifact.
C21_ApplyLeavesStateAlone ==
    Merged =>
        /\ call.rules = rules_toml[target_pkg]
        /\ write_combined_rules(NoFile, call.order, call.rules, FALSE,
                                pyproject).file
               = default_nix[target_pkg]

\* C22: when a pass sees the same failures as the pass before it, no rule's
\* extract is called for a unit for which the pass before called it.
C22_ExtractOnce ==
    [][(PassRan /\ last.n >= 1 /\ last.err = "none"
            /\ last'.failures = last.failures)
        => last'.extracts \cap last.extracts = {}]_vars

\* C23: a string marked by nix_path is formatted as "./" followed by
\* exactly that string, and a string marked by nix_literal is formatted as
\* exactly that string.
C23_MarkersRoundTrip ==
    pc = "formatted" =>
        /\ call.via = "nix_path" => call.out = <<".", "/">> \o call.arg
        /\ call.via = "nix_literal" => call.out = call.arg

\* The half of C23 on nix_literal.
LiteralRoundTrips ==
    (pc = "formatted" /\ call.via = "nix_literal") => call.out = call.arg

\* C24: what write_rules persists is what it was given: after a pass that
\* wrote the rule state of a unit, load_existing_rules returns for the unit
\* the rule state the pass held in memory.
C24_RuleStateRoundTrips ==
    \A i \in DOMAIN last.merged :
        load_existing_rules(rules_toml, last.merged[i].unit)
            = last.merged[i].rules

\* C25: a call of get_pypi_json without force asks the network exactly
\* when the cached file is missing or was written more than 24 hours
\* before, and serves the cached file otherwise.
C25_CacheIsFreshFor24Hours ==
    [][(call'.served # "none" /\ ~call'.force)
        => (call'.served = "network"
                <=> (~call.exists \/ call.now - call.mtime > CacheWindow))]_vars

\* C26: the step of rewrite-only mode runs no build and leaves the project
\* file, the flake, the result link and the persisted rule state of every
\* unit as they were; of the artifacts only the target's may change.
C26_RewriteOnlyRegenerates ==
    [][pc = "rewrite"
        => /\ builds' = builds
           /\ stderr' = stderr
           /\ result' = result
           /\ pyproject' = pyproject
           /\ flake' = flake
           /\ rules_toml' = rules_toml
           /\ \A u \in Units \ {target_pkg} :
                  default_nix'[u] = default_nix[u]]_vars

\* A rewrite regenerated the artifact from a rule state that asks for a
\* dependency constraint or a python downgrade, and the project file is as
\* it was.
C26_ArtifactRegenerated ==
    /\ RewriteCompleted
    /\ default_nix[target_pkg].exists
    /\ \/ call.acc.dep_constraints # EmptyMap
       \/ call.acc.python_downgrade # "None"
    /\ builds = 0
    /\ pyproject = [python |-> python_version, deps |-> <<>>]

\* Every order of the keys in order.
Orders(order) ==
    {p \in [1..Len(order) -> Range(order)] :
        \A i, j \in 1..Len(order) : i # j => p[i] # p[j]}

\* The keys of parts that are merged as scalars or records.
ScalarPart(parts) ==
    [k \in DOMAIN parts \ (PatchKeys \cup AccumulationKeys) |-> parts[k]]

\* C27: the merge of a rule state comes out the same in every order of its
\* rules: it raises in every order or in none, and when it does not raise,
\* the scalar and record keys of both attribute sets hold the same values.
C27_MergeOrderIndependent ==
    pc \in {"done", "written", "raised"} =>
        \A p \in Orders(call.order) :
            /\ (MergeRules(1, p, rules_toml[target_pkg], MergeStart).err
                    = "none")
                   <=> (call.acc.err = "none")
            /\ call.acc.err = "none"
                   => /\ ScalarPart(MergeRules(1, p, rules_toml[target_pkg],
                                               MergeStart).src_attrset_parts)
                             = ScalarPart(call.acc.src_attrset_parts)
                      /\ ScalarPart(MergeRules(1, p, rules_toml[target_pkg],
                                               MergeStart).wheel_attrset_parts)
                             = ScalarPart(call.acc.wheel_attrset_parts)

\* C28: the dependency list of the project file holds no constraint twice.
C28_NoConstraintTwice ==
    \A i, j \in DOMAIN pyproject.deps :
        i # j => pyproject.deps[i] # pyproject.deps[j]

\* The python versions the merges of a pass asked for.
DowngradesOf(merged) ==
    {MergeRules(1, SortedKeys, merged[i].rules, MergeStart).python_downgrade :
        i \in DOMAIN merged} \ {"None"}

\* C29: when a merge of a pass asks for a python downgrade and the pass
\* ends without an exception, main holds that version afterwards, and it is
\* the version of the project file, of the flake the next attempt is built
\* with, and of the next call of detect_rules.
C29_DowngradeReachesMain ==
    [][(PassRan /\ last'.err = "none")
        => \A v \in DowngradesOf(last'.merged) :
               /\ python_downgrade' = v
               /\ pyproject'.python = v
               /\ CurrentPython' = v
               /\ FlakeAtLoopHead'.python = flatpythonver(v)]_vars

\* What BuildSystems.match returns in a pass for the i-th failure, given the
\* rule state the pass found.
BuildSystemsOf(toml, failures, i) ==
    Elems(BuildSystemsMatch(
              failures[i].unit, failures[i].log,
              load_existing_rules(toml, failures[i].unit)["BuildSystems"],
              load_existing_rules(toml, failures[i].unit)))

\* A list of build systems as C30 describes it, for a unit.
WellFormedBuildSystems(opts, unit) ==
    /\ opts = SortedSet(opts)
    /\ unit \notin Range(opts)
    /\ ~({"cython", "cython_0"} \subseteq Range(opts))
    /\ Range(opts) \cap filtered_build_systems = {}

\* C30: in every pass, for every failure, BuildSystems.match returns a
\* sorted list without duplicates that holds neither the unit's own name,
\* nor both cython and cython_0, nor a filtered build system.
C30_BuildSystemsWellFormed ==
    [][PassRan
        => \A i \in DOMAIN last'.failures :
               WellFormedBuildSystems(
                   BuildSystemsOf(rules_toml, last'.failures, i),
                   last'.failures[i].unit)]_vars

====
